---- MODULE Spec2Model ----
(***************************************************************************)
(* The arena orchestrator of stream_console: two realtime sessions (A, B)  *)
(* whose generated audio is cross-fed, with the HTTP handlers that start   *)
(* and stop it.  One action is one macrotask of the Node event loop: a     *)
(* handler together with the promise continuations it releases.            *)
(***************************************************************************)
EXTENDS Integers, Sequences, FiniteSets, TLC

\* ------------------------------------------------------------------ bounds
MaxStarts == 2
MaxEvents == 6
SeedFrames == 2

\* ------------------------------------------------------- program constants
frameSize == 960
frameDelayMs == 20

Label == {"A", "B"}

\* a faulty variant: the forward goes back to the party it came from
OtherIsSelf(label) == label
\* const other = label === "A" ? "B" : "A";
Other(label) == IF label = "A" THEN "B" ELSE "A"

\* the voice chosen in the session.created branch
Voice(label) == IF label = "A" THEN "alloy" ELSE "echo"

\* ------------------------------------------------------------- wire values
\* Base64 texts the remote service can put in an audio message, with the
\* number of bytes each decodes to.  "cDQ4MA" is "cDQ4MA==" without its
\* padding: Buffer.from accepts it and yields the bytes of the padded text.
B64Texts == {"", "cDQ4MA", "cDEwMDA="}

\* Buffer.from(b64, "base64"): a buffer is a window [lo, hi) on named bytes.
Canon(b64) == IF b64 = "cDQ4MA" THEN "cDQ4MA==" ELSE b64
ByteLen(b64) ==
  CASE Canon(b64) = "" -> 0
    [] Canon(b64) = "cDQ4MA==" -> 480
    [] Canon(b64) = "cDEwMDA=" -> 1000
Decode(b64) == [src |-> Canon(b64), lo |-> 0, hi |-> ByteLen(b64)]

BufLen(buf) == buf.hi - buf.lo
Min(a, b) == IF a < b THEN a ELSE b

\* a faulty variant: the end of the slice is not clamped to the buffer
SliceUnclamped(buf, i, j) ==
  [src |-> buf.src, lo |-> Min(buf.lo + i, buf.hi), hi |-> buf.lo + j]
\* buffer.slice(i, j): clamps both ends to the buffer
Slice(buf, i, j) ==
  [src |-> buf.src, lo |-> Min(buf.lo + i, buf.hi), hi |-> Min(buf.lo + j, buf.hi)]

\* fs.readFileSync("seed_hello.pcm")
SeedBuffer == [src |-> "seed", lo |-> 0, hi |-> SeedFrames * frameSize]

\* the id the remote service gives the session of a connection
RemoteId(c) == <<"sess", c>>

\* Inbound raw messages, by what JSON.parse and the dispatch make of them.
\* The audio message of either protocol revision: its type and the field
\* that carries the base64 text.
AudioTypes == {"response.audio_chunk", "response.audio.delta"}
AudioShapes == {<<"response.audio_chunk", "data">>, <<"response.audio.delta", "delta">>}
RawMessages ==
  {[parse |-> FALSE, type |-> "", field |-> "", b64 |-> ""]}
  \cup {[parse |-> TRUE, type |-> "session.created", field |-> "", b64 |-> ""]}
  \cup {[parse |-> TRUE, type |-> sh[1], field |-> sh[2], b64 |-> b] :
          sh \in AudioShapes, b \in B64Texts}
  \cup {[parse |-> TRUE, type |-> "response.done", field |-> "", b64 |-> ""]}

VARIABLES
  conns,       \* every WebSocket created so far: label, readyState, _createSession promise
  sessions,    \* this.sessions: label -> connection (0 = undefined)
  sessionIds,  \* this.sessionIds: label -> remote id (<<>> = undefined)
  events,      \* this.events: label -> timed audio events
  pending,     \* this.forwardQueues: label -> callbacks chained and not yet run
  streams,     \* _streamTo invocations suspended on their 20 ms timer (wait: not yet due)
  startTime,   \* this.startTime (-1 = null)
  now,         \* Date.now()
  starts,      \* start() invocations: promise state and the HTTP answer given
  wire,        \* per party: messages handed to its OPEN sockets, in send order
  nErrors,     \* "error" events emitted
  received,    \* audio payloads handled per originating party, in receipt order
  missed,      \* a payload arrived for a destination with no OPEN session
  nEvents,     \* outside events so far: requests, socket events, clock ticks
  last,        \* the outside event handled last, by kind
  \* the state that only the variant of src/unnamed/part_000 has
  topicNarrative,  \* this.topicNarrative
  transcripts,     \* this.transcripts: label -> the texts appended, in order
  outputDir,       \* this.outputDir (<<>> = the empty string)
  wavWriters,      \* this.wavWriters: "A", "B", "combined" -> writer
  files,           \* paths written by fs.writeFileSync
  timers,          \* start() invocations suspended on the ping delay
  crashed          \* an exception nobody catches has ended the process

varsP0 == <<topicNarrative, transcripts, outputDir, wavWriters, files, timers, crashed>>

vars == <<conns, sessions, sessionIds, events, pending, streams, startTime, now,
          starts, wire, nErrors, received, missed, nEvents, last, varsP0>>

ConnIds == 1..Len(conns)

\* the start() invocation that created connection c (A then B per invocation)
StartOf(c) == (c + 1) \div 2

\* one more outside event
Event ==
  /\ nEvents < MaxEvents
  /\ nEvents' = nEvents + 1

\* the writers: undefined until created, open until ended
WriterLabel == {"A", "B", "combined"}
NoWriter == [path |-> <<>>, state |-> "undefined", bytes |-> 0]

\* part_000's constructor: topicNarrative = '', transcripts = {}, outputDir = ''.
\* A text appended to transcripts[label] while it is undefined follows the
\* word "undefined".
InitP0 ==
  /\ topicNarrative = ""
  /\ transcripts = [l \in Label |-> <<"undefined">>]
  /\ outputDir = <<>>
  /\ wavWriters = [l \in WriterLabel |-> NoWriter]
  /\ files = {}
  /\ timers = {}
  /\ crashed = FALSE

Init ==
  /\ InitP0
  /\ conns = <<>>
  /\ sessions = [l \in Label |-> 0]
  /\ sessionIds = [l \in Label |-> <<>>]
  /\ events = [l \in Label |-> <<>>]
  /\ pending = [l \in Label |-> <<>>]
  /\ streams = {}
  /\ startTime = -1
  /\ now = 0
  /\ starts = <<>>
  /\ wire = [l \in Label |-> <<>>]
  /\ nErrors = 0
  /\ received = [l \in Label |-> <<>>]
  /\ missed = [l \in Label |-> FALSE]
  /\ nEvents = 0
  /\ last = ""

\* ---------------------------------------------------------------- sending
\* What a macrotask has done so far, while its promise continuations run.
Effects ==
  [conns |-> conns, wire |-> wire, nErrors |-> nErrors, streams |-> streams,
   pending |-> pending]

Commit(r) ==
  /\ conns' = r.conns
  /\ wire' = r.wire
  /\ nErrors' = r.nErrors
  /\ streams' = r.streams
  /\ pending' = r.pending

\* ws.readyState === WebSocket.OPEN, for ws = this.sessions[label] (0 = undefined)
IsOpen(cs, ws) == ws # 0 /\ cs[ws].state = "OPEN"

SessionUpdate(c, label) ==
  [conn |-> c, type |-> "session.update", from |-> "", voice |-> Voice(label),
   audio |-> [src |-> "", lo |-> 0, hi |-> 0]]
AppendFrame(c, from, frame) ==
  [conn |-> c, type |-> "input_audio_buffer.append", from |-> from, voice |-> "",
   audio |-> frame]

\* a faulty variant: the message goes out whatever the socket's state
SendWhateverState(r, c, msg) ==
  [r EXCEPT !.wire[r.conns[c].label] = Append(@, msg)]
\* ws.send(...): a socket that is no longer OPEN transmits nothing
Send(r, c, msg) ==
  IF IsOpen(r.conns, c) THEN [r EXCEPT !.wire[r.conns[c].label] = Append(@, msg)]
  ELSE r

QueueId == 0
Running(strs, id, label) == {s \in strs : s.id = id /\ s.dest = label}

\* _streamTo(label, buffer) up to its first await: the readiness check, then
\* the first frame and its timer.  `sess` is this.sessions as it is then.
StreamTo(r, sess, id, label, buf, from) ==
  LET ws == sess[label] IN
  IF ~IsOpen(r.conns, ws) THEN [r EXCEPT !.nErrors = @ + 1]
  ELSE IF ~(0 < BufLen(buf)) THEN r
  ELSE [Send(r, ws, AppendFrame(ws, from, Slice(buf, 0, frameSize))) EXCEPT
          !.streams = @ \cup {[id |-> id, dest |-> label, ws |-> ws, buf |-> buf,
                               i |-> 0, wait |-> TRUE, from |-> from]}]

\* The promise chain of forwardQueues[label]: each chained callback runs when
\* the promise before it has settled.
RECURSIVE Drain(_, _, _)
\* a faulty variant: a forward that fails leaves the chain rejected, and what
\* was chained behind it is never run
DrainStopsOnFailure(r, sess, label) ==
  IF r.pending[label] = <<>> THEN r
  ELSE LET item == Head(r.pending[label])
           r1 == StreamTo([r EXCEPT !.pending[label] = Tail(@)], sess, QueueId,
                          label, item.buf, item.from)
       IN IF Running(r1.streams, QueueId, label) # {} \/ r1.nErrors > r.nErrors THEN r1
          ELSE Drain(r1, sess, label)
Drain(r, sess, label) ==
  IF r.pending[label] = <<>> THEN r
  ELSE LET item == Head(r.pending[label])
           r1 == StreamTo([r EXCEPT !.pending[label] = Tail(@)], sess, QueueId,
                          label, item.buf, item.from)
       IN IF Running(r1.streams, QueueId, label) # {} THEN r1
          ELSE Drain(r1, sess, label)

\* a faulty variant: the new forward is put before those already waiting
EnqueueFirst(r, sess, label, item) ==
  LET r1 == [r EXCEPT !.pending[label] = <<item>> \o @]
  IN IF Running(r.streams, QueueId, label) # {} THEN r1 ELSE Drain(r1, sess, label)
\* a faulty variant: the callback runs at once, whatever is still running
EnqueueEager(r, sess, label, item) ==
  Drain([r EXCEPT !.pending[label] = Append(@, item)], sess, label)
\* this.forwardQueues[other] = this.forwardQueues[other].then(() => ...)
Enqueue(r, sess, label, item) ==
  LET r1 == [r EXCEPT !.pending[label] = Append(@, item)]
  IN IF Running(r.streams, QueueId, label) # {} THEN r1 ELSE Drain(r1, sess, label)

\* ------------------------------------------------------ POST /arena/start
\* orchestrator.start().catch(...); res.json({ status: "started" })
\* start(): startTime, then both _createSession executors (A, then B).
NewConn(label) == [label |-> label, state |-> "CONNECTING", promise |-> "pending"]
StartResponse == "started"
Start ==
  /\ Len(starts) < MaxStarts
  /\ Event
  /\ startTime' = now
  /\ conns' = conns \o <<NewConn("A"), NewConn("B")>>
  /\ starts' = Append(starts, [state |-> "pending", response |-> StartResponse])
  /\ last' = "start"
  /\ UNCHANGED <<sessions, sessionIds, events, pending, streams, now, wire,
                 nErrors, received, missed, varsP0>>

\* ------------------------------------------------------ ws.on("message")
\* a faulty variant: the error is emitted and the party's session is dropped
OnParseErrorDropsSession(r, c) ==
  /\ Commit([r EXCEPT !.nErrors = @ + 1])
  /\ sessions' = [sessions EXCEPT ![r.conns[c].label] = 0]
  /\ UNCHANGED <<sessionIds, events, startTime, now, starts, received, missed>>
\* try { msg = JSON.parse(raw); } catch (err) { return this.emit("error", err); }
OnParseError(r, c) ==
  /\ Commit([r EXCEPT !.nErrors = @ + 1])
  /\ UNCHANGED <<sessions, sessionIds, events, startTime, now, starts, received,
                 missed>>

\* resolve(): settles the _createSession promise once; Promise.all in start()
\* is fulfilled when both promises of that invocation are resolved.
Resolved(cs, c) ==
  IF cs[c].promise = "pending" THEN [cs EXCEPT ![c].promise = "resolved"] ELSE cs
\* a faulty variant: start() goes on when one of its two sessions is created
AnyResolved(cs, k) ==
  cs[2 * k - 1].promise = "resolved" \/ cs[2 * k].promise = "resolved"
BothResolved(cs, k) ==
  cs[2 * k - 1].promise = "resolved" /\ cs[2 * k].promise = "resolved"

\* msg.type === "session.created"; when this resolves the last promise of a
\* start(), its continuation runs: the seed is streamed to "A", not queued.
OnSessionCreated(r, c) ==
  LET label == r.conns[c].label
      k == StartOf(c)
      sess == [sessions EXCEPT ![label] = c]
      r1 == [Send(r, c, SessionUpdate(c, label)) EXCEPT !.conns = Resolved(@, c)]
      go == starts[k].state = "pending" /\ BothResolved(r1.conns, k)
  IN /\ sessionIds' = [sessionIds EXCEPT ![label] = RemoteId(c)]
     /\ sessions' = sess
     /\ starts' = IF go THEN [starts EXCEPT ![k].state = "resolved"] ELSE starts
     /\ Commit(IF go THEN StreamTo(r1, sess, k, "A", SeedBuffer, "seed") ELSE r1)
     /\ UNCHANGED <<events, startTime, now, received, missed>>

\* a faulty variant: nothing is recorded while an earlier forward is waiting
RecordWhenIdle(evs, label, t, chunk) ==
  IF pending[Other(label)] # <<>> THEN evs
  ELSE [evs EXCEPT ![label] = Append(@, [t |-> t, data |-> chunk])]
\* this.events[label].push({ t, data: chunk })
Record(evs, label, t, chunk) ==
  [evs EXCEPT ![label] = Append(@, [t |-> t, data |-> chunk])]

\* msg.type === "response.audio_chunk" || msg.type === "response.audio.delta".
\* A chained forward remembers, for the record only, which OPEN session the
\* other party had when it was chained (0: none).
OnAudio(r, c, m) ==
  LET label == r.conns[c].label
      chunk == Decode(m.b64)
      t == now - startTime
      other == Other(label)
  IN /\ events' = Record(events, label, t, chunk)
     /\ received' = [received EXCEPT ![label] = Append(@, chunk)]
     /\ missed' = [missed EXCEPT ![other] = @ \/ ~IsOpen(r.conns, sessions[other])]
     /\ Commit(Enqueue(r, sessions, other,
                        [buf |-> chunk, from |-> label,
                         addressed |-> IF IsOpen(r.conns, sessions[other])
                                       THEN sessions[other] ELSE 0]))
     /\ UNCHANGED <<sessions, sessionIds, startTime, now, starts>>

\* this.emit("log", { session: label, event: msg.type, payload: msg })
OnOther(r, c) ==
  /\ Commit(r)
  /\ UNCHANGED <<sessions, sessionIds, events, startTime, now, starts, received,
                 missed>>

\* ws.once("open") only logs: the socket is OPEN from then on, which the
\* first message delivered on it shows.
Opened(cs, c) ==
  IF cs[c].state = "CONNECTING" THEN [cs EXCEPT ![c].state = "OPEN"] ELSE cs

\* The receiver delivers messages while the socket is OPEN and, after a local
\* ws.close(), until the closing handshake ends.
Message(c, m) ==
  LET r == [Effects EXCEPT !.conns = Opened(@, c)]
  IN /\ conns[c].state \in {"CONNECTING", "OPEN", "CLOSING"}
     /\ Event
     /\ last' = (IF ~m.parse THEN "unparseable " \o conns[c].label
                 ELSE IF m.type \in AudioTypes THEN "audio" ELSE m.type)
     /\ IF ~m.parse THEN OnParseError(r, c)
        ELSE IF m.type = "session.created" THEN OnSessionCreated(r, c)
        ELSE IF m.type \in AudioTypes THEN OnAudio(r, c, m)
        ELSE OnOther(r, c)
     /\ UNCHANGED varsP0

\* ws.on("error"): emit("error"), reject(err).  A rejected Promise.all makes
\* start() reject, and server.js's .catch emits the error once more.  The
\* failed socket is torn down: it is never OPEN again and delivers nothing.
ErrorEvt(c) ==
  LET k == StartOf(c)
      first == conns[c].promise = "pending" /\ starts[k].state = "pending"
  IN /\ conns[c].state \in {"CONNECTING", "OPEN"}
     /\ Event
     /\ conns' = [conns EXCEPT ![c].state = "CLOSED",
                               ![c].promise = IF @ = "pending" THEN "rejected" ELSE @]
     /\ starts' = IF first THEN [starts EXCEPT ![k].state = "rejected"] ELSE starts
     /\ nErrors' = nErrors + (IF first THEN 2 ELSE 1)
     /\ last' = "error"
     /\ UNCHANGED <<sessions, sessionIds, events, pending, streams, startTime, now,
                    wire, received, missed, varsP0>>

\* ws.once("close"): a log event only
CloseEvt(c) ==
  /\ conns[c].state \in {"OPEN", "CLOSING"}
  /\ Event
  /\ conns' = [conns EXCEPT ![c].state = "CLOSED"]
  /\ last' = "close"
  /\ UNCHANGED <<sessions, sessionIds, events, pending, streams, startTime, now,
                 starts, wire, nErrors, received, missed, varsP0>>

\* ------------------------------------------------------- POST /arena/stop
\* ws?.readyState: undefined when no session was stored for the label
ReadyStateOf(cs, ws) == IF ws = 0 THEN "undefined" ELSE cs[ws].state

\* if (ws?.readyState === WebSocket.OPEN) ws.close();
StopParty(cs, label) ==
  LET ws == sessions[label]
  IN IF ReadyStateOf(cs, ws) = "OPEN" THEN [cs EXCEPT ![ws].state = "CLOSING"] ELSE cs

\* a faulty variant: the events stay in their order of arrival
SortNot(s) == s

\* events.sort((a, b) => a.t - b.t): in place and stable
RECURSIVE InsertByT(_, _)
InsertByT(s, e) ==
  IF s = <<>> THEN <<e>>
  ELSE IF s[Len(s)].t <= e.t THEN Append(s, e)
  ELSE Append(InsertByT(SubSeq(s, 1, Len(s) - 1), e), s[Len(s)])
RECURSIVE SortByT(_)
SortByT(s) ==
  IF s = <<>> THEN <<>>
  ELSE InsertByT(SortByT(SubSeq(s, 1, Len(s) - 1)), s[Len(s)])

\* _writeConversationFiles(): 24 kHz, 16 bit, mono
sampleRate == 24000
bitDepth == 16
bytesPerMs == (sampleRate * (bitDepth \div 8)) \div 1000

\* `${this.outputDir}/${name}`
PathIn(dir, name) == <<dir, name>>

\* path.join(__dirname, "..", "recordings"), created when the module loads
recordingsDir == <<"src", "recordings">>

\* Buffer.alloc(n): n zero bytes
Silence(n) == [src |-> "zero", lo |-> 0, hi |-> n]

\* build padding each event by its whole offset, as if the cursor stayed at 0
RECURSIVE BuildFromOffsetAsGap(_, _, _, _)
BuildFromOffsetAsGap(evs, i, cursorBytes, track) ==
  IF i > Len(evs) THEN track
  ELSE LET e == evs[i]
           gapBytes == e.t * bytesPerMs
           padded == IF gapBytes > 0 THEN Append(track, Silence(gapBytes)) ELSE track
       IN BuildFromOffsetAsGap(evs, i + 1, 0, Append(padded, e.data))

\* The loop of build over the sorted events, from the i-th on.  A track is
\* the sequence of buffers given to writer.write.  The code keeps the cursor
\* in milliseconds, a fraction when a payload is no whole number of
\* milliseconds long; cursorBytes is that cursor times bytesPerMs, which is
\* whole, and Math.round(gap * bytesPerMs) is the whole number gapBytes.
RECURSIVE BuildFrom(_, _, _, _)
BuildFrom(evs, i, cursorBytes, track) ==
  IF i > Len(evs) THEN track
  ELSE LET e == evs[i]
           gapBytes == e.t * bytesPerMs - cursorBytes
           padded == IF gapBytes > 0 THEN Append(track, Silence(gapBytes)) ELSE track
       IN BuildFrom(evs, i + 1, e.t * bytesPerMs + BufLen(e.data), Append(padded, e.data))

\* build(events, name) on sorted events: what the writer was given
Build(evs) == BuildFrom(evs, 1, 0, <<>>)

\* a build that leaves out the file of an empty track
WriteFileUnlessEmpty(fs, name, track) ==
  IF track = <<>> THEN fs
  ELSE {f \in fs : f.path # PathIn(recordingsDir, name)}
         \cup {[path |-> PathIn(recordingsDir, name), content |-> track]}

\* fs.createWriteStream(file): the file is created, or replaced
WriteFile(fs, name, track) ==
  LET path == PathIn(recordingsDir, name)
  IN {f \in fs : f.path # path} \cup {[path |-> path, content |-> track]}

\* a merge that concatenates and does not sort
MergedUnsorted(evs) == evs["A"] \o evs["B"]

\* [...this.events.A, ...this.events.B].sort((a,b) => a.t - b.t)
Merged(evs) == SortByT(evs["A"] \o evs["B"])

\* _writeConversationFiles(): build sorts the array it is given in place
WriteConversationFiles(fs, sorted) ==
  WriteFile(WriteFile(WriteFile(fs, "sessionA_full.wav", Build(sorted["A"])),
                      "sessionB_full.wav", Build(sorted["B"])),
            "conversation.wav", Build(Merged(sorted)))

\* stop(): both parties in order, then _writeConversationFiles(), which
\* sorts this.events.A and this.events.B and writes the three recordings.
\* server.js answers "stopped".
Stop ==
  LET sorted == [l \in Label |-> SortByT(events[l])]
  IN /\ Event
     /\ conns' = StopParty(StopParty(conns, "A"), "B")
     /\ events' = sorted
     /\ files' = WriteConversationFiles(files, sorted)
     /\ last' = "stop"
     /\ UNCHANGED <<sessions, sessionIds, pending, streams, startTime, now, starts,
                    wire, nErrors, received, missed, topicNarrative, transcripts,
                    outputDir, wavWriters, timers, crashed>>

\* ------------------------------------------------------------------ timers
\* await new Promise(r => setTimeout(r, 20)) expires: the loop of _streamTo
\* goes on with the next frame, or the invocation returns and, for a queued
\* forward, the promise chain runs what was chained behind it.
TimerFire(s) ==
  LET i2 == s.i + frameSize
      r == [Effects EXCEPT !.streams = @ \ {s}]
  IN /\ s \in streams
     /\ ~s.wait
     /\ IF i2 < BufLen(s.buf)
        THEN Commit([Send(r, s.ws, AppendFrame(s.ws, s.from, Slice(s.buf, i2, i2 + frameSize)))
                      EXCEPT !.streams = @ \cup {[s EXCEPT !.i = i2, !.wait = TRUE]}])
        ELSE IF s.id = QueueId THEN Commit(Drain(r, sessions, s.dest))
        ELSE Commit(r)
     /\ UNCHANGED <<sessions, sessionIds, events, startTime, now, starts,
                    received, missed, nEvents, last, varsP0>>

\* 20 ms of wall-clock time pass: every timer set before is due
Tick ==
  /\ Event
  /\ now' = now + frameDelayMs
  /\ streams' = {[s EXCEPT !.wait = FALSE] : s \in streams}
  /\ last' = "tick"
  /\ UNCHANGED <<conns, sessions, sessionIds, events, pending, startTime,
                 starts, wire, nErrors, received, missed, varsP0>>

Next ==
  \/ Start
  \/ Stop
  \/ Tick
  \/ \E c \in ConnIds : ErrorEvt(c)
  \/ \E c \in ConnIds : CloseEvt(c)
  \/ \E c \in ConnIds, m \in RawMessages : Message(c, m)
  \/ \E s \in streams : TimerFire(s)

Spec == Init /\ [][Next]_vars

\* A conversation that is running: the state Spec reaches by a start request,
\* session.created on both connections and the two timers of the seed, with
\* the outside events counted from there.
InitRunning ==
  /\ InitP0
  /\ conns = <<[label |-> "A", state |-> "OPEN", promise |-> "resolved"],
               [label |-> "B", state |-> "OPEN", promise |-> "resolved"]>>
  /\ sessions = [A |-> 1, B |-> 2]
  /\ sessionIds = [A |-> RemoteId(1), B |-> RemoteId(2)]
  /\ events = [l \in Label |-> <<>>]
  /\ pending = [l \in Label |-> <<>>]
  /\ streams = {}
  /\ startTime = 0
  /\ now = SeedFrames * frameDelayMs
  /\ starts = <<[state |-> "resolved", response |-> StartResponse]>>
  /\ wire = [A |-> <<SessionUpdate(1, "A")>>
                    \o [j \in 1..SeedFrames |->
                          AppendFrame(1, "seed",
                                      Slice(SeedBuffer, (j - 1) * frameSize, j * frameSize))],
             B |-> <<SessionUpdate(2, "B")>>]
  /\ nErrors = 0
  /\ received = [l \in Label |-> <<>>]
  /\ missed = [l \in Label |-> FALSE]
  /\ nEvents = 0
  /\ last = ""

\* the messages drawn while it runs: session.created and one audio payload
RunningMessages ==
  {m \in RawMessages :
     m.parse /\ (m.type = "session.created"
                 \/ (m.type = "response.audio.delta" /\ m.b64 = "cDQ4MA"))}

NextRunning ==
  \/ Start
  \/ Stop
  \/ Tick
  \/ \E c \in ConnIds : ErrorEvt(c)
  \/ \E c \in ConnIds : CloseEvt(c)
  \/ \E c \in ConnIds, m \in RunningMessages : Message(c, m)
  \/ \E s \in streams : TimerFire(s)

SpecRunning == InitRunning /\ [][NextRunning]_vars

\* ------------------------------------------------------------ subscribers
\* this.emit(...) calls the listeners one after the other inside the handler
\* that emits.  server.js attaches one listener for "log" and one for "error"
\* for good, and two more for every UI client connected to /arena/ws; what
\* such a further subscriber does when an event is delivered is the
\* environment's: none is attached, it returns, or it throws.  A listener
\* that throws ends emit and the handler around it, and nothing catches the
\* exception of a ws 'message' listener.
Subscribers == {"absent", "returns", "throws"}

\* ws.on("message") with a subscriber that throws from the first emit of the
\* branch taken: after JSON.parse failed (line 65); after sessionIds[label]
\* was set (71); after the event was pushed and before the forward is
\* chained (102); in the last line (111)
MessageAborted(c, m) ==
  LET label == conns[c].label
  IN /\ conns[c].state \in {"CONNECTING", "OPEN", "CLOSING"}
     /\ Event
     /\ last' = (IF ~m.parse THEN "unparseable " \o label
                 ELSE IF m.type \in AudioTypes THEN "audio" ELSE m.type)
     /\ conns' = Opened(conns, c)
     /\ crashed' = TRUE
     /\ nErrors' = IF ~m.parse THEN nErrors + 1 ELSE nErrors
     /\ sessionIds' = IF m.parse /\ m.type = "session.created"
                      THEN [sessionIds EXCEPT ![label] = RemoteId(c)] ELSE sessionIds
     /\ events' = IF m.parse /\ m.type \in AudioTypes
                  THEN Record(events, label, now - startTime, Decode(m.b64)) ELSE events
     /\ received' = IF m.parse /\ m.type \in AudioTypes
                    THEN [received EXCEPT ![label] = Append(@, Decode(m.b64))]
                    ELSE received
     /\ UNCHANGED <<sessions, pending, streams, startTime, now, starts, wire, missed,
                    topicNarrative, transcripts, outputDir, wavWriters, files, timers>>

MessageSub(c, m, sub) ==
  IF sub = "throws" THEN MessageAborted(c, m) ELSE Message(c, m)

\* the running conversation with subscribers; nothing runs once the process
\* has ended
NextSub ==
  /\ ~crashed
  /\ \/ Stop
     \/ Tick
     \/ \E c \in ConnIds : CloseEvt(c)
     \/ \E c \in ConnIds, m \in RunningMessages \cup {m \in RawMessages : ~m.parse},
           sub \in Subscribers : MessageSub(c, m, sub)
     \/ \E s \in streams : TimerFire(s)

SpecSub == InitRunning /\ [][NextSub]_vars

\* ------------------------------------------------- finalizing a recording
\* _writeConversationFiles as a function of this.events: the conversation
\* of InitRunning after audio has arrived.  An event's offset is the time of
\* its receipt, so each party's events are in non-decreasing offset order;
\* the service sends audio faster than it plays, so offsets may lie before
\* the end of the audio received earlier.
MaxLen == 2
FinalizeOffsets == {0, 50, 150}
FinalizeSizes == {50 * bytesPerMs, 100 * bytesPerMs}
\* the chunk of n bytes that party label produced
Chunk(label, n) == [src |-> label, lo |-> 0, hi |-> n]
NonDecreasing(evs) == \A i \in 1..(Len(evs) - 1) : evs[i].t <= evs[i + 1].t
EventsOf(label) ==
  LET E == [t : FinalizeOffsets, data : {Chunk(label, n) : n \in FinalizeSizes}]
  IN {evs \in UNION {[1..n -> E] : n \in 0..MaxLen} : NonDecreasing(evs)}

InitRecorded(EA, EB) ==
  /\ InitP0
  /\ conns = <<[label |-> "A", state |-> "OPEN", promise |-> "resolved"],
               [label |-> "B", state |-> "OPEN", promise |-> "resolved"]>>
  /\ sessions = [A |-> 1, B |-> 2]
  /\ sessionIds = [A |-> RemoteId(1), B |-> RemoteId(2)]
  /\ events \in [Label -> EA \cup EB]
  /\ events["A"] \in EA /\ events["B"] \in EB
  /\ pending = [l \in Label |-> <<>>]
  /\ streams = {}
  /\ startTime = 0
  /\ now = SeedFrames * frameDelayMs + 150
  /\ starts = <<[state |-> "resolved", response |-> StartResponse]>>
  /\ wire = [A |-> <<SessionUpdate(1, "A")>>
                    \o [j \in 1..SeedFrames |->
                          AppendFrame(1, "seed",
                                      Slice(SeedBuffer, (j - 1) * frameSize, j * frameSize))],
             B |-> <<SessionUpdate(2, "B")>>]
  /\ nErrors = 0
  /\ received = [l \in Label |-> [i \in 1..Len(events[l]) |-> events[l][i].data]]
  /\ missed = [l \in Label |-> FALSE]
  /\ nEvents = 0
  /\ last = ""

InitFinalize == InitRecorded(EventsOf("A"), EventsOf("B"))

NextFinalize == Stop

SpecFinalize == InitFinalize /\ [][NextFinalize]_vars

\* Offsets are differences of wall-clock readings, and start() sets startTime
\* anew without emptying this.events: the order of arrival need not be the
\* order of the offsets.  Event lists in any order of arrival, the offsets
\* of a party's events pairwise distinct.
DistinctOffsets(evs) ==
  \A i, j \in 1..Len(evs) : evs[i].t = evs[j].t => i = j
ArrivalsOf(label) ==
  LET E == [t : FinalizeOffsets, data : {Chunk(label, n) : n \in FinalizeSizes}]
  IN {evs \in UNION {[1..n -> E] : n \in 0..MaxLen} : DistinctOffsets(evs)}

InitArrival == InitRecorded(ArrivalsOf("A"), ArrivalsOf("B"))

SpecArrival == InitArrival /\ [][NextFinalize]_vars

\* =============================================== src/unnamed/part_000
\* The variant with a generated topic, text transcripts and three writers.
\* It forwards each payload at once and has no forwarding queue, no timed
\* events and no start time: those variables stay as constructed.
only0507 == <<events, pending, streams, startTime, received, missed>>

pingDelayMs == 1000

\* this.voices
VoicesP0 == [A |-> "alloy", B |-> "echo"]


\* _createWavWriter(path)
CreateWavWriter(path) == [path |-> path, state |-> "open", bytes |-> 0]
\* writer?.end()
EndWriter(w) == IF w.state = "open" THEN [w EXCEPT !.state = "ended"] ELSE w
\* writer.write(chunk): an ended writer takes nothing
WriteP0(w, n) == IF w.state = "open" THEN [w EXCEPT !.bytes = @ + n] ELSE w

\* what part_000 sends
MsgP0(c, type, from, voice, audio, role, text) ==
  [conn |-> c, type |-> type, from |-> from, voice |-> voice, audio |-> audio,
   role |-> role, text |-> text]
NoAudio == [src |-> "", lo |-> 0, hi |-> 0]
SendP0(cs, w, c, msg) ==
  IF IsOpen(cs, c) THEN [w EXCEPT ![cs[c].label] = Append(@, msg)] ELSE w

\* _sendInitialPrompts(label, prompt): three sends on this.sessions[label]
SendInitialPrompts(cs, w, sess, label, topic) ==
  LET c == sess[label]
      w1 == SendP0(cs, w, c, MsgP0(c, "conversation.item.create", "", "", NoAudio,
                                   "system", <<topic, label>>))
      w2 == SendP0(cs, w1, c, MsgP0(c, "conversation.item.create", "", "", NoAudio,
                                    "user", <<"Speak now.">>))
  IN SendP0(cs, w2, c, MsgP0(c, "response.create", "", "", NoAudio, "", <<>>))

\* Inbound messages of part_000's dispatch.  conversation.item.created comes
\* without a payload member, with payload.item.role "user", or with a payload
\* that has no item.
TextTypes == {"response.text.delta", "response.text.done"}
RawMessagesP0 ==
  {[parse |-> FALSE, type |-> "", field |-> "", b64 |-> ""]}
  \cup {[parse |-> TRUE, type |-> "session.created", field |-> "", b64 |-> ""]}
  \cup {[parse |-> TRUE, type |-> t, field |-> "hi", b64 |-> ""] : t \in TextTypes}
  \cup {[parse |-> TRUE, type |-> "response.audio.delta", field |-> "delta", b64 |-> b] :
          b \in {"cDQ4MA", "cDEwMDA="}}
  \cup {[parse |-> TRUE, type |-> "conversation.item.created", field |-> f, b64 |-> ""] :
          f \in {"", "payload.item.role=user", "payload"}}
  \cup {[parse |-> TRUE, type |-> "response.done", field |-> "", b64 |-> ""]}

NewConnP0(label, k) ==
  [label |-> label, state |-> "CONNECTING", promise |-> "pending", start |-> k]
BothResolvedP0(cs, k) ==
  \A c \in 1..Len(cs) : cs[c].start = k => cs[c].promise = "resolved"

\* POST /arena/start: start() runs up to the fetch of _generateTopic, and the
\* handler answers "started".
StartP0 ==
  /\ ~crashed
  /\ Len(starts) < MaxStarts
  /\ Event
  /\ starts' = Append(starts, [state |-> "topic", response |-> StartResponse])
  /\ last' = "start"
  /\ UNCHANGED <<conns, sessions, sessionIds, now, wire, nErrors, only0507, varsP0>>

\* _generateTopic settles.  With a topic, start() goes on: the output folder
\* named by the time, empty transcripts, and both _createSession executors.
\* Without one start() rejects, and server.js's .catch emits the error.
TopicDoneP0(k, ok) ==
  /\ ~crashed
  /\ starts[k].state = "topic"
  /\ Event
  /\ last' = "topic"
  /\ IF ok
     THEN /\ topicNarrative' = "topic"
          /\ outputDir' = <<now>>
          /\ transcripts' = [l \in Label |-> <<>>]
          /\ conns' = conns \o <<NewConnP0("A", k), NewConnP0("B", k)>>
          /\ starts' = [starts EXCEPT ![k].state = "connecting"]
          /\ nErrors' = nErrors
     ELSE /\ starts' = [starts EXCEPT ![k].state = "rejected"]
          /\ nErrors' = nErrors + 1
          /\ UNCHANGED <<topicNarrative, outputDir, transcripts, conns>>
  /\ UNCHANGED <<sessions, sessionIds, now, wire, only0507, wavWriters, files,
                 timers, crashed>>

\* msg.type === 'response.text.delta' / 'response.text.done'
OnTextP0(cs, c, m) ==
  /\ conns' = cs
  /\ transcripts' = [transcripts EXCEPT ![cs[c].label] = Append(@, m.field)]
  /\ UNCHANGED <<sessions, sessionIds, starts, wire, nErrors, topicNarrative,
                 outputDir, wavWriters, files, timers, crashed>>

\* msg.type === 'session.created'; when it resolves the last promise of a
\* start(), that goes on: the combined writer, the prompts of A, the delay.
OnSessionCreatedP0(cs, c) ==
  LET label == cs[c].label
      k == cs[c].start
      cs1 == Resolved(cs, c)
      sess == [sessions EXCEPT ![label] = c]
      w1 == SendP0(cs, wire, c, MsgP0(c, "session.update", "", VoicesP0[label],
                                      NoAudio, "", <<>>))
      ww1 == [wavWriters EXCEPT
                ![label] = CreateWavWriter(PathIn(outputDir, <<"session", label, ".wav">>))]
      go == starts[k].state = "connecting" /\ BothResolvedP0(cs1, k)
  IN /\ conns' = cs1
     /\ sessionIds' = [sessionIds EXCEPT ![label] = RemoteId(c)]
     /\ sessions' = sess
     /\ IF go
        THEN /\ wavWriters' = [ww1 EXCEPT !["combined"] =
                                 CreateWavWriter(PathIn(outputDir, <<"conversation.wav">>))]
             /\ wire' = SendInitialPrompts(cs1, w1, sess, "A", topicNarrative)
             /\ timers' = timers \cup {[start |-> k, topic |-> topicNarrative, due |-> FALSE]}
             /\ starts' = [starts EXCEPT ![k].state = "waiting"]
        ELSE /\ wavWriters' = ww1
             /\ wire' = w1
             /\ UNCHANGED <<timers, starts>>
     /\ UNCHANGED <<nErrors, topicNarrative, transcripts, outputDir, files, crashed>>

\* msg.type === 'response.audio_chunk' || 'response.audio.delta': the chunk to
\* the party's writer, as much silence to the other's, the chunk to the
\* combined one, then the forward.  Reaching an undefined writer throws; a
\* write to an ended writer is an error event on it, which has no listener
\* unless the stream was destroyed already.
OnAudioP0(cs, c, m, boom) ==
  LET label == cs[c].label
      other == Other(label)
      n == BufLen(Decode(m.b64))
      d1 == wavWriters[label].state # "undefined"
      d2 == d1 /\ wavWriters[other].state # "undefined"
      d3 == d2 /\ wavWriters["combined"].state # "undefined"
      late == \/ d1 /\ wavWriters[label].state = "ended"
              \/ d2 /\ wavWriters[other].state = "ended"
              \/ d3 /\ wavWriters["combined"].state = "ended"
      target == sessions[other]
  IN /\ conns' = cs
     /\ wavWriters' = [l \in WriterLabel |->
          IF (l = label /\ d1) \/ (l = other /\ d2) \/ (l = "combined" /\ d3)
          THEN WriteP0(wavWriters[l], n) ELSE wavWriters[l]]
     /\ wire' = IF d3 THEN SendP0(cs, wire, target,
                             MsgP0(target, "input_audio_buffer.append", label, "",
                                   Decode(m.b64), "", <<>>))
                ELSE wire
     /\ crashed' = (~d3 \/ (late /\ boom))
     /\ UNCHANGED <<sessions, sessionIds, starts, nErrors, topicNarrative,
                    transcripts, outputDir, files, timers>>

\* msg.type === 'conversation.item.created' && msg.payload?.item.role === 'user'
OnItemCreatedP0(cs, c, m) ==
  /\ conns' = cs
  /\ wire' = IF m.field = "payload.item.role=user"
             THEN SendP0(cs, wire, c, MsgP0(c, "response.create", "", "", NoAudio, "",
                                            sessionIds[cs[c].label]))
             ELSE wire
  /\ crashed' = (m.field = "payload")
  /\ UNCHANGED <<sessions, sessionIds, starts, nErrors, topicNarrative,
                 transcripts, outputDir, wavWriters, files, timers>>

\* ws.on('message') of part_000
MessageP0(c, m, boom) ==
  LET cs == Opened(conns, c)
  IN /\ ~crashed
     /\ conns[c].state \in {"CONNECTING", "OPEN", "CLOSING"}
     /\ Event
     /\ last' = (IF ~m.parse THEN "unparseable " \o conns[c].label
                 ELSE IF m.type \in AudioTypes THEN "audio"
                 ELSE IF m.type \in TextTypes THEN m.type \o " " \o conns[c].label
                 ELSE m.type)
     /\ IF ~m.parse
        THEN /\ conns' = cs
             /\ nErrors' = nErrors + 1
             /\ UNCHANGED <<sessions, sessionIds, starts, wire, varsP0>>
        ELSE IF m.type \in TextTypes THEN OnTextP0(cs, c, m)
        ELSE IF m.type = "session.created" THEN OnSessionCreatedP0(cs, c)
        ELSE IF m.type \in AudioTypes THEN OnAudioP0(cs, c, m, boom)
        ELSE IF m.type = "conversation.item.created" THEN OnItemCreatedP0(cs, c, m)
        ELSE /\ conns' = cs
             /\ UNCHANGED <<sessions, sessionIds, starts, wire, nErrors, varsP0>>
     /\ UNCHANGED <<now, only0507>>

\* ws.on('error'): emit('error'), reject(err).  ws emits 'close' right after
\* 'error', so the 'close' listener runs as well: every writer is ended.
ErrorEvtP0(c) ==
  LET k == conns[c].start
      first == conns[c].promise = "pending" /\ starts[k].state = "connecting"
  IN /\ ~crashed
     /\ conns[c].state \in {"CONNECTING", "OPEN"}
     /\ Event
     /\ conns' = [conns EXCEPT ![c].state = "CLOSED",
                               ![c].promise = IF @ = "pending" THEN "rejected" ELSE @]
     /\ starts' = IF first THEN [starts EXCEPT ![k].state = "rejected"] ELSE starts
     /\ nErrors' = nErrors + (IF first THEN 2 ELSE 1)
     /\ wavWriters' = [l \in WriterLabel |-> EndWriter(wavWriters[l])]
     /\ last' = "error"
     /\ UNCHANGED <<sessions, sessionIds, now, wire, only0507, topicNarrative,
                    transcripts, outputDir, files, timers, crashed>>

\* ws.once('close'): Object.values(this.wavWriters).forEach(writer => writer?.end())
CloseEvtP0(c) ==
  /\ ~crashed
  /\ conns[c].state \in {"OPEN", "CLOSING"}
  /\ Event
  /\ conns' = [conns EXCEPT ![c].state = "CLOSED"]
  /\ wavWriters' = [l \in WriterLabel |-> EndWriter(wavWriters[l])]
  /\ last' = "close"
  /\ UNCHANGED <<sessions, sessionIds, now, starts, wire, nErrors, only0507,
                 topicNarrative, transcripts, outputDir, files, timers, crashed>>

\* stop() of part_000: the sockets and writers of "A", "B" and "combined",
\* then fs.writeFileSync(`${this.outputDir}/conversation_details.txt`, record).
\* With outputDir still '' the path is in the root directory, and the write
\* succeeds or throws as the process may or may not create files there;
\* server.js answers "stopped", or 500 when stop() throws.
StopP0(rootWritable) ==
  LET path == PathIn(outputDir, <<"conversation_details.txt">>)
      record == [topic |-> topicNarrative, A |-> transcripts["A"], B |-> transcripts["B"]]
      written == outputDir # <<>> \/ rootWritable
  IN /\ ~crashed
     /\ Event
     /\ conns' = StopParty(StopParty(conns, "A"), "B")
     /\ wavWriters' = [l \in WriterLabel |-> EndWriter(wavWriters[l])]
     /\ files' = IF written THEN files \cup {[path |-> path, content |-> record]}
                 ELSE files
     /\ last' = IF written THEN "stop" ELSE "stop threw"
     /\ UNCHANGED <<sessions, sessionIds, now, starts, wire, nErrors, only0507,
                    topicNarrative, transcripts, outputDir, timers, crashed>>

\* the ping delay of a start() expires: _sendInitialPrompts('B', ...), and
\* start() returns
TimerFireP0(t) ==
  /\ ~crashed
  /\ t \in timers
  /\ t.due
  /\ timers' = timers \ {t}
  /\ wire' = SendInitialPrompts(conns, wire, sessions, "B", t.topic)
  /\ starts' = [starts EXCEPT ![t.start].state = "resolved"]
  /\ UNCHANGED <<conns, sessions, sessionIds, now, nErrors, only0507, nEvents, last,
                 topicNarrative, transcripts, outputDir, wavWriters, files, crashed>>

\* pingDelayMs of wall-clock time pass
TickP0 ==
  /\ ~crashed
  /\ Event
  /\ now' = now + pingDelayMs
  /\ timers' = {[t EXCEPT !.due = TRUE] : t \in timers}
  /\ last' = "tick"
  /\ UNCHANGED <<conns, sessions, sessionIds, starts, wire, nErrors, only0507,
                 topicNarrative, transcripts, outputDir, wavWriters, files, crashed>>

NextP0 ==
  \/ StartP0
  \/ \E k \in 1..Len(starts), ok \in BOOLEAN : TopicDoneP0(k, ok)
  \/ \E rootWritable \in BOOLEAN : StopP0(rootWritable)
  \/ TickP0
  \/ \E c \in ConnIds : ErrorEvtP0(c)
  \/ \E c \in ConnIds : CloseEvtP0(c)
  \/ \E c \in ConnIds, m \in RawMessagesP0, boom \in BOOLEAN : MessageP0(c, m, boom)
  \/ \E t \in timers : TimerFireP0(t)

SpecP0 == Init /\ [][NextP0]_vars

\* =========================================== src/server/orchestrator.js
\* The variant server.js loads: each payload is written to the party's
\* writer and forwarded at once in a single message; no queue, no timers, no
\* timed events.  `received` lists the payloads its audio branch has decoded.
onlyOther == <<events, pending, streams, startTime, missed, now, topicNarrative,
               transcripts, outputDir, files, timers>>

\* Inbound messages of orchestrator.js's dispatch.  session.created carries a
\* session object with an id, with another id, or no session object; an
\* audio message of either type carries its text in data or in delta, or
\* has neither member;
\* conversation.item.created comes without a payload member, with
\* payload.item.role "user", or with a payload that has no item.
RawMessagesCur ==
  {[parse |-> FALSE, type |-> "", field |-> "", b64 |-> ""]}
  \cup {[parse |-> TRUE, type |-> "session.created", field |-> f, b64 |-> ""] :
          f \in {"session.id", "session.id again", ""}}
  \cup {[parse |-> TRUE, type |-> ty, field |-> f, b64 |-> b] :
          ty \in AudioTypes, f \in {"data", "delta"}, b \in {"cDQ4MA", "cDEwMDA="}}
  \cup {[parse |-> TRUE, type |-> "response.audio.delta", field |-> "", b64 |-> ""]}
  \cup {[parse |-> TRUE, type |-> "conversation.item.created", field |-> f, b64 |-> ""] :
          f \in {"", "payload.item.role=user", "payload"}}
  \cup {[parse |-> TRUE, type |-> "response.done", field |-> "", b64 |-> ""]}

\* msg.data and msg.delta of an audio message (the member that is not there
\* reads as undefined), and msg.data ?? msg.delta
DataOf(m) == IF m.field = "data" THEN m.b64 ELSE "undefined"
DeltaOf(m) == IF m.field = "delta" THEN m.b64 ELSE "undefined"
\* a faulty variant: only msg.data is read
PayloadDataOnly(m) == DataOf(m)
PayloadOf(m) == IF DataOf(m) # "undefined" THEN DataOf(m) ELSE DeltaOf(m)

\* a parseable message that lacks the member its branch reads
Malformed(m) ==
  m.parse /\ m.field = "" /\ m.type \in AudioTypes \cup {"session.created"}

\* msg.session.id
SessionIdIn(c, m) ==
  IF m.field = "session.id" THEN RemoteId(c) ELSE <<"sess", c, "again">>

\* POST /arena/start: both _createSession executors, then "started"
StartCur ==
  /\ ~crashed
  /\ Len(starts) < MaxStarts
  /\ Event
  /\ conns' = conns \o <<NewConn("A"), NewConn("B")>>
  /\ starts' = Append(starts, [state |-> "pending", response |-> StartResponse])
  /\ last' = "start"
  /\ UNCHANGED <<sessions, sessionIds, wire, nErrors, received, wavWriters, crashed,
                 onlyOther>>

\* _sendAudio(label, buffer): one message with the whole buffer, or an error
SendAudio(cs, r, sess, label, buf) ==
  IF IsOpen(cs, sess[label])
  THEN [r EXCEPT !.wire = SendP0(cs, @, sess[label],
                    MsgP0(sess[label], "input_audio_buffer.append", "seed", "", buf,
                          "", <<>>))]
  ELSE [r EXCEPT !.nErrors = @ + 1]

\* msg.type === 'session.created': reading msg.session.id of a message
\* without a session object throws out of the handler.  Otherwise the id,
\* session.update, a new writer, the session entry, resolve(); when that
\* resolves the last promise of a start(), the seed is sent to "A".
OnSessionCreatedCur(cs, c, m) ==
  LET label == cs[c].label
      k == StartOf(c)
      cs1 == Resolved(cs, c)
      sess == [sessions EXCEPT ![label] = c]
      r1 == [wire |-> SendP0(cs, wire, c, MsgP0(c, "session.update", "", "", NoAudio,
                                                "", <<>>)),
             nErrors |-> nErrors]
      go == starts[k].state = "pending" /\ BothResolved(cs1, k)
      r2 == IF go THEN SendAudio(cs1, r1, sess, "A", SeedBuffer) ELSE r1
  IN IF m.field = ""
     THEN /\ conns' = cs
          /\ crashed' = TRUE
          /\ UNCHANGED <<sessions, sessionIds, starts, wire, nErrors, wavWriters>>
     ELSE /\ conns' = cs1
          /\ sessionIds' = [sessionIds EXCEPT ![label] = SessionIdIn(c, m)]
          /\ sessions' = sess
          /\ wavWriters' = [wavWriters EXCEPT
                              ![label] = CreateWavWriter(<<"session", label, ".wav">>)]
          /\ starts' = IF go THEN [starts EXCEPT ![k].state = "resolved"] ELSE starts
          /\ wire' = r2.wire
          /\ nErrors' = r2.nErrors
          /\ UNCHANGED crashed

\* msg.type === 'response.audio_chunk' || 'response.audio.delta':
\* Buffer.from(undefined, 'base64') throws, and so does write on an undefined
\* writer; a write to an ended writer is an error event on it, which has no
\* listener unless the stream was destroyed already.  Then the forward, if
\* the other party's session is OPEN; nothing is done when it is not.
AudioEffectCur(cs, c, m, boom) ==
  LET label == cs[c].label
      other == Other(label)
      b64 == PayloadOf(m)
      chunk == Decode(b64)
      w == wavWriters[label]
      target == sessions[other]
  IN IF b64 = "undefined" \/ w.state = "undefined"
     THEN [crashed |-> TRUE, received |-> received, wavWriters |-> wavWriters,
           wire |-> wire, nErrors |-> nErrors]
     ELSE [crashed |-> (w.state = "ended" /\ boom),
           received |-> [received EXCEPT ![label] = Append(@, chunk)],
           wavWriters |-> [wavWriters EXCEPT ![label] = WriteP0(w, BufLen(chunk))],
           wire |-> SendP0(cs, wire, target,
                           MsgP0(target, "input_audio_buffer.append", label, "", chunk,
                                 "", <<>>)),
           nErrors |-> nErrors]

\* the audio branch, as a step
OnAudioCur(cs, c, m, boom) ==
  LET e == AudioEffectCur(cs, c, m, boom)
  IN /\ conns' = cs
     /\ crashed' = e.crashed
     /\ received' = e.received
     /\ wavWriters' = e.wavWriters
     /\ wire' = e.wire
     /\ nErrors' = e.nErrors
     /\ UNCHANGED <<sessions, sessionIds, starts>>

\* a faulty variant: response.create whatever the item's role
OnItemCreatedAnyRole(cs, c, m) ==
  /\ conns' = cs
  /\ wire' = SendP0(cs, wire, c, MsgP0(c, "response.create", "", "", NoAudio, "",
                                       sessionIds[cs[c].label]))
  /\ UNCHANGED <<sessions, sessionIds, starts, nErrors, wavWriters, crashed>>

\* msg.type === 'conversation.item.created': response.create when
\* msg.payload?.item?.role === 'user'
OnItemCreatedCur(cs, c, m) ==
  /\ conns' = cs
  /\ wire' = IF m.field = "payload.item.role=user"
             THEN SendP0(cs, wire, c, MsgP0(c, "response.create", "", "", NoAudio, "",
                                            sessionIds[cs[c].label]))
             ELSE wire
  /\ UNCHANGED <<sessions, sessionIds, starts, nErrors, wavWriters, crashed>>

\* ws.on('message') of orchestrator.js
MessageCur(c, m, boom) ==
  LET cs == Opened(conns, c)
  IN /\ ~crashed
     /\ conns[c].state \in {"CONNECTING", "OPEN", "CLOSING"}
     /\ Event
     /\ last' = (IF ~m.parse THEN "unparseable " \o conns[c].label
                 ELSE IF Malformed(m) THEN "malformed"
                 ELSE IF m.type \in AudioTypes THEN "audio" ELSE m.type)
     /\ IF ~m.parse
        THEN /\ conns' = cs
             /\ nErrors' = nErrors + 1
             /\ UNCHANGED <<sessions, sessionIds, starts, wire, wavWriters, crashed>>
        ELSE IF m.type = "session.created" THEN OnSessionCreatedCur(cs, c, m)
        ELSE IF m.type \in AudioTypes THEN OnAudioCur(cs, c, m, boom)
        ELSE IF m.type = "conversation.item.created" THEN OnItemCreatedCur(cs, c, m)
        ELSE /\ conns' = cs
             /\ UNCHANGED <<sessions, sessionIds, starts, wire, nErrors, wavWriters,
                            crashed>>
     /\ IF m.parse /\ m.type \in AudioTypes THEN TRUE ELSE UNCHANGED received
     /\ UNCHANGED onlyOther

\* ws.on('error'): emit('error'), reject(err).  ws emits 'close' right after
\* 'error', so the 'close' listener runs as well: the party's writer is ended.
ErrorEvtCur(c) ==
  LET k == StartOf(c)
      first == conns[c].promise = "pending" /\ starts[k].state = "pending"
  IN /\ ~crashed
     /\ conns[c].state \in {"CONNECTING", "OPEN"}
     /\ Event
     /\ conns' = [conns EXCEPT ![c].state = "CLOSED",
                               ![c].promise = IF @ = "pending" THEN "rejected" ELSE @]
     /\ starts' = IF first THEN [starts EXCEPT ![k].state = "rejected"] ELSE starts
     /\ nErrors' = nErrors + (IF first THEN 2 ELSE 1)
     /\ wavWriters' = [wavWriters EXCEPT ![conns[c].label] = EndWriter(@)]
     /\ last' = "error"
     /\ UNCHANGED <<sessions, sessionIds, wire, received, crashed, onlyOther>>

\* ws.once('close'): this.wavWriters[label]?.end()
CloseEvtCur(c) ==
  /\ ~crashed
  /\ conns[c].state \in {"OPEN", "CLOSING"}
  /\ Event
  /\ conns' = [conns EXCEPT ![c].state = "CLOSED"]
  /\ wavWriters' = [wavWriters EXCEPT ![conns[c].label] = EndWriter(@)]
  /\ last' = "close"
  /\ UNCHANGED <<sessions, sessionIds, starts, wire, nErrors, received, crashed,
                 onlyOther>>

\* stop() of orchestrator.js: per party, close an OPEN socket and end the
\* writer; server.js answers "stopped"
StopCur ==
  /\ ~crashed
  /\ Event
  /\ conns' = StopParty(StopParty(conns, "A"), "B")
  /\ wavWriters' = [l \in WriterLabel |->
                      IF l \in Label THEN EndWriter(wavWriters[l]) ELSE wavWriters[l]]
  /\ last' = "stop"
  /\ UNCHANGED <<sessions, sessionIds, starts, wire, nErrors, received, crashed,
                 onlyOther>>

NextCur ==
  \/ StartCur
  \/ StopCur
  \/ \E c \in ConnIds : ErrorEvtCur(c)
  \/ \E c \in ConnIds : CloseEvtCur(c)
  \/ \E c \in ConnIds, m \in RawMessagesCur, boom \in BOOLEAN : MessageCur(c, m, boom)

SpecCur == Init /\ [][NextCur]_vars

\* orchestrator.js with its conversation established: the state SpecCur
\* reaches by a start request and session.created on both connections, with
\* the count of outside events started afresh.  No further start request.
InitRunningCur ==
  /\ topicNarrative = ""
  /\ transcripts = [l \in Label |-> <<"undefined">>]
  /\ outputDir = <<>>
  /\ wavWriters = [l \in WriterLabel |->
                     IF l \in Label THEN CreateWavWriter(<<"session", l, ".wav">>)
                     ELSE NoWriter]
  /\ files = {}
  /\ timers = {}
  /\ crashed = FALSE
  /\ conns = <<[label |-> "A", state |-> "OPEN", promise |-> "resolved"],
               [label |-> "B", state |-> "OPEN", promise |-> "resolved"]>>
  /\ sessions = [A |-> 1, B |-> 2]
  /\ sessionIds = [A |-> RemoteId(1), B |-> RemoteId(2)]
  /\ events = [l \in Label |-> <<>>]
  /\ pending = [l \in Label |-> <<>>]
  /\ streams = {}
  /\ startTime = -1
  /\ now = 0
  /\ starts = <<[state |-> "resolved", response |-> StartResponse]>>
  /\ wire = [A |-> <<MsgP0(1, "session.update", "", "", NoAudio, "", <<>>),
                     MsgP0(1, "input_audio_buffer.append", "seed", "", SeedBuffer,
                           "", <<>>)>>,
             B |-> <<MsgP0(2, "session.update", "", "", NoAudio, "", <<>>)>>]
  /\ nErrors = 0
  /\ received = [l \in Label |-> <<>>]
  /\ missed = [l \in Label |-> FALSE]
  /\ nEvents = 0
  /\ last = ""

\* the messages drawn while it runs: one audio payload under either type
\* and either member, and conversation.item.created
RunningMessagesCur ==
  {m \in RawMessagesCur :
     \/ m.type \in AudioTypes /\ m.b64 = "cDQ4MA"
     \/ m.type = "conversation.item.created"}

NextRunningCur ==
  \/ StopCur
  \/ \E c \in ConnIds : ErrorEvtCur(c)
  \/ \E c \in ConnIds : CloseEvtCur(c)
  \/ \E c \in ConnIds, m \in RunningMessagesCur, boom \in BOOLEAN :
        MessageCur(c, m, boom)

SpecRunningCur == InitRunningCur /\ [][NextRunningCur]_vars

\* ================================================================== claims
IsForward(e) == e.type = "input_audio_buffer.append" /\ e.from \in Label

\* C1: an input_audio_buffer.append that forwards audio received on party
\* X's session is only ever sent on a connection of the other party.
C1_ForwardOnlyToOther ==
  \A y \in Label : \A i \in 1..Len(wire[y]) :
    IsForward(wire[y][i]) =>
      /\ conns[wire[y][i].conn].label # wire[y][i].from
      /\ conns[wire[y][i].conn].label \in Label

\* C1 witness: audio of A and audio of B have both been forwarded.
C1_Witness ==
  /\ \E i \in 1..Len(wire["A"]) : wire["A"][i].from = "B"
  /\ \E i \in 1..Len(wire["B"]) : wire["B"][i].from = "A"

\* The audio bytes forwarded to party y, in send order: the frames that came
\* from the other party, with frames that continue one another joined.
RECURSIVE Joined(_)
Joined(frames) ==
  IF Len(frames) < 2 THEN frames
  ELSE LET init == Joined(SubSeq(frames, 1, Len(frames) - 1))
           p == init[Len(init)]
           f == frames[Len(frames)]
       IN IF f.src = p.src /\ f.lo = p.hi /\ 0 < f.lo
          THEN SubSeq(init, 1, Len(init) - 1) \o <<[p EXCEPT !.hi = f.hi]>>
          ELSE Append(init, f)
ForwardedFrames(y) ==
  LET fw == SelectSeq(wire[y], LAMBDA e : IsForward(e) /\ e.from = Other(y))
  IN [i \in 1..Len(fw) |-> fw[i].audio]
ForwardedTo(y) == Joined(ForwardedFrames(y))

\* The payloads received from the other party that carry at least one byte.
PayloadsFor(y) == SelectSeq(received[Other(y)], LAMBDA b : 0 < BufLen(b))

\* Party y's session has been open all along: none of its connections has
\* closed, and no payload arrived for it while it had no open session.
StaysOpen(y) ==
  /\ ~missed[y]
  /\ \A c \in ConnIds : conns[c].label = y => conns[c].state \in {"CONNECTING", "OPEN"}

QueueIdle(y) == pending[y] = <<>> /\ Running(streams, QueueId, y) = {}

IsPrefixUpToLast(got, exp) ==
  /\ Len(got) <= Len(exp)
  /\ \A i \in 1..Len(got) :
       IF i < Len(got) THEN got[i] = exp[i]
       ELSE got[i].src = exp[i].src /\ got[i].lo = 0 /\ got[i].hi <= exp[i].hi

\* C2: while party y's session stays open, the bytes sent to y are at every
\* moment the payloads received from the other party, in receipt order, each
\* byte once, up to the payload being streamed; when the forwarding queue of
\* y has nothing left to do, every payload has been sent whole.
C2_ForwardedInOrderOnce ==
  \A y \in Label :
    StaysOpen(y) =>
      /\ IsPrefixUpToLast(ForwardedTo(y), PayloadsFor(y))
      /\ QueueIdle(y) => ForwardedTo(y) = PayloadsFor(y)

\* C2 witness: two different payloads were received while the first was
\* still being paced; the first has been sent whole and the second follows.
C2_Witness ==
  \E y \in Label :
    /\ StaysOpen(y)
    /\ Len(PayloadsFor(y)) = 2
    /\ PayloadsFor(y)[1].src # PayloadsFor(y)[2].src
    /\ Len(ForwardedTo(y)) = 2
    /\ ForwardedTo(y)[1] = PayloadsFor(y)[1]

\* C3: handling an audio payload received on party x's session appends
\* exactly one event to x's sequence, holding the decoded bytes and the time
\* since start, and leaves the other party's sequence alone, whatever is
\* waiting in a forwarding queue.
C3_EveryPayloadRecorded ==
  [][(nEvents' # nEvents /\ last' = "audio") =>
       \E x \in Label :
         /\ Len(received'[x]) = Len(received[x]) + 1
         /\ events'[x] = Append(events[x],
                [t |-> now - startTime, data |-> received'[x][Len(received'[x])]])
         /\ events'[Other(x)] = events[Other(x)]]_vars

\* C3 witness: a payload was recorded while an earlier forward was waiting.
C3_Witness ==
  /\ last = "audio"
  /\ \E x \in Label : Len(events[x]) = 2 /\ pending[Other(x)] # <<>>

\* The frames handed to party y's sockets in the step being taken.
NewFrames(y) == SubSeq(wire'[y], Len(wire[y]) + 1, Len(wire'[y]))

\* C4: for each destination the queue runs one forward at a time, and the
\* first frame of a queued item is only sent in a step before which no
\* queued forward to that destination had a frame left to send or a pacing
\* delay still running.
C4_QueueOneAtATime ==
  /\ [](\A y \in Label : Cardinality(Running(streams, QueueId, y)) <= 1)
  /\ [][\A y \in Label :
          (\E j \in 1..Len(NewFrames(y)) :
              IsForward(NewFrames(y)[j]) /\ NewFrames(y)[j].audio.lo = 0)
          => \A s \in Running(streams, QueueId, y) :
               ~s.wait /\ ~(s.i + frameSize < BufLen(s.buf))]_vars

\* C4 witness: the second of two queued payloads is being paced, the first
\* having been sent and its delay having passed, with nothing left waiting.
C4_Witness ==
  \E y \in Label : \E s \in Running(streams, QueueId, y) :
    /\ Len(received[Other(y)]) = 2
    /\ 0 < BufLen(received[Other(y)][1])
    /\ s.buf = received[Other(y)][2]
    /\ pending[y] = <<>>

\* C5: at most one forward operation to a destination, seed or live, is
\* between its first frame and the end of its pacing delay.
C5_OneForwardInFlight ==
  \A y \in Label : Cardinality({s \in streams : s.dest = y}) <= 1

\* a conversation is active or still starting
Active ==
  \/ \E k \in 1..Len(starts) : starts[k].state = "pending"
  \/ \E l \in Label : IsOpen(conns, sessions[l])

\* C6: a start request made while a conversation is active or starting is
\* answered AlreadyActive and opens no connection, and leaves the sessions,
\* the remote ids, the recorded events and the start time as they were.
C6_StartWhileActiveFails ==
  [][(nEvents' # nEvents /\ last' = "start" /\ Active) =>
       /\ starts'[Len(starts')].response = "AlreadyActive"
       /\ UNCHANGED <<conns, sessions, sessionIds, events, startTime>>]_vars

\* C7: when a start has failed because one party's connection failed, no
\* seed frame of that start has been sent and neither connection of that
\* start is an open session.
C7_FailedStartLeavesNothingOpen ==
  \A k \in 1..Len(starts) :
    starts[k].state = "rejected" =>
      /\ \A i \in 1..Len(wire["A"]) :
            ~(wire["A"][i].from = "seed" /\ wire["A"][i].conn = 2 * k - 1)
      /\ \A c \in {2 * k - 1, 2 * k} :
            ~(sessions[conns[c].label] = c /\ conns[c].state = "OPEN")

\* C8: a start that fails has not been answered "started".
C8_FailedStartNotAnsweredStarted ==
  \A k \in 1..Len(starts) :
    starts[k].state = "rejected" => starts[k].response # "started"

\* no party has a session that is not closed: none was ever created, or
\* those created are closed
NoSession ==
  \A l \in Label : sessions[l] = 0 \/ conns[sessions[l]].state = "CLOSED"

\* C9: a stop request made while no party has a session that is not closed
\* is answered without an error, and closes no connection.
C9_StopWhenInactiveIsNoOp ==
  [][(nEvents' # nEvents /\ last' \in {"stop", "stop threw"} /\ NoSession) =>
       (last' = "stop" /\ conns' = conns /\ nErrors' = nErrors)]_vars

\* C10: an inbound message that cannot be parsed emits exactly one error and
\* changes nothing else: the session entries, the remote ids, the recorded
\* events, both forwarding queues and what has been sent stay as they were.
C10_ParseErrorOnlyEmitsError ==
  [][(nEvents' # nEvents /\ last' \in {"unparseable A", "unparseable B"}) =>
       /\ nErrors' = nErrors + 1
       /\ UNCHANGED <<sessions, sessionIds, events, pending, streams, wire,
                      startTime, starts>>]_vars

\* C10 witness: an unparseable message has just been handled on the session
\* of A, which has recorded audio, while a forward to B was being paced.
C10_Witness ==
  /\ last = "unparseable A"
  /\ sessions["A"] # 0
  /\ events["A"] # <<>>
  /\ Running(streams, QueueId, "B") # {}

\* C11: a parseable message that lacks the member its branch reads (an audio
\* message with neither data nor delta, a session.created without a session
\* object) emits one error, ends nothing, and changes nothing else.
C11_MalformedIsReportedAndIgnored ==
  [][(nEvents' # nEvents /\ last' = "malformed") =>
       /\ nErrors' = nErrors + 1
       /\ ~crashed'
       /\ UNCHANGED <<sessions, sessionIds, wire, wavWriters, received>>]_vars

\* the state of InitRunning, but for the count of events and the last event
Established ==
  /\ conns = <<[label |-> "A", state |-> "OPEN", promise |-> "resolved"],
               [label |-> "B", state |-> "OPEN", promise |-> "resolved"]>>
  /\ sessions = [A |-> 1, B |-> 2]
  /\ sessionIds = [A |-> RemoteId(1), B |-> RemoteId(2)]
  /\ events = [l \in Label |-> <<>>] /\ pending = [l \in Label |-> <<>>]
  /\ streams = {} /\ startTime = 0 /\ now = SeedFrames * frameDelayMs
  /\ starts = <<[state |-> "resolved", response |-> StartResponse]>>
  /\ Len(wire["A"]) = 1 + SeedFrames /\ Len(wire["B"]) = 1
  /\ nErrors = 0 /\ missed = [l \in Label |-> FALSE]

\* the forwards to y taken off its queue in the step being taken, counting
\* one chained in this very step
Dequeued(y) ==
  (IF Len(received'[Other(y)]) > Len(received[Other(y)]) THEN 1 ELSE 0)
  + Len(pending[y]) - Len(pending'[y])

\* a queued forward to y starts streaming in the step being taken
StartsQueued(y) ==
  \E s \in Running(streams', QueueId, y) \ streams : s.i = 0 /\ s.wait

\* C12: a forward that was chained for an open session of y and is waiting
\* in the queue of y when that session is closed is never streamed: when
\* its turn comes it is dropped, nothing being sent for it.
C12_QueuedForwardsDropped ==
  [][\A y \in Label :
       (/\ StartsQueued(y)
        /\ Dequeued(y) \in 1..Len(pending[y]))
       => LET it == pending[y][Dequeued(y)]
          IN ~(it.addressed # 0 /\ conns[it.addressed].state \in {"CLOSING", "CLOSED"})]_vars

\* C13: whenever forwards to y are taken up while y has no open session, one
\* error is emitted for each, nothing is sent to y, and none of them starts
\* streaming: they are gone from the queue.
C13_ForwardToClosedReportedAndDropped ==
  [][\A y \in Label :
       (Dequeued(y) > 0 /\ ~IsOpen(conns, sessions[y]))
       => /\ nErrors' = nErrors + Dequeued(y)
          /\ wire'[y] = wire[y]
          /\ ~StartsQueued(y)]_vars

SameEvents(a, b) ==
  /\ Len(a) = Len(b)
  /\ \A i \in 1..Len(a) :
       Cardinality({j \in 1..Len(a) : a[j] = a[i]})
         = Cardinality({j \in 1..Len(b) : b[j] = a[i]})

\* C15: while the session stored for party x is closing or closed, no step
\* adds an event to x's recording or takes one away.
C15_NoRecordingAfterClose ==
  [][\A x \in Label :
       (sessions[x] # 0 /\ conns[sessions[x]].state \in {"CLOSING", "CLOSED"})
       => SameEvents(events[x], events'[x])]_vars

\* ---------------------------------------------------------- the recordings
Finalized == last = "stop"
HasFile(name) == \E f \in files : f.path = PathIn(recordingsDir, name)
TrackOf(name) == (CHOOSE f \in files : f.path = PathIn(recordingsDir, name)).content
FileOf(label) == IF label = "A" THEN "sessionA_full.wav" ELSE "sessionB_full.wav"
IsSilence(buf) == buf.src = "zero"

\* every offset at or after the end of the audio before it, the first at or
\* after the start of the track
NonOverlapping(evs) ==
  \A i \in 1..Len(evs) :
    evs[i].t * 48 >= (IF i = 1 THEN 0 ELSE evs[i - 1].t * 48 + BufLen(evs[i - 1].data))

\* what the claim asks of a track: before each event the silence of the gap,
\* 48 bytes for each millisecond, and none for a gap of zero
RECURSIVE GapFilled(_, _)
GapFilled(evs, n) ==
  IF n = 0 THEN <<>>
  ELSE LET gap == evs[n].t * 48
                    - (IF n = 1 THEN 0 ELSE evs[n - 1].t * 48 + BufLen(evs[n - 1].data))
       IN GapFilled(evs, n - 1)
            \o (IF gap = 0 THEN <<>> ELSE <<[src |-> "zero", lo |-> 0, hi |-> gap]>>)
            \o <<evs[n].data>>

\* C16: after finalizing, a track whose events do not overlap (a party's, or
\* the merged one) holds, before each event, silence of exactly the gap to
\* the end of the preceding audio at 48 bytes per millisecond, and none where
\* the gap is zero.
C16_SilenceIsExactlyTheGap ==
  Finalized =>
    LET both == SortByT(events["A"] \o events["B"])
    IN /\ \A l \in Label :
            NonOverlapping(events[l])
            => /\ HasFile(FileOf(l))
               /\ TrackOf(FileOf(l)) = GapFilled(events[l], Len(events[l]))
       /\ NonOverlapping(both)
          => /\ HasFile("conversation.wav")
             /\ TrackOf("conversation.wav") = GapFilled(both, Len(both))

\* two 100 ms events at 0 ms and 150 ms: 50 ms of silence between them
C16_Witness ==
  /\ Finalized
  /\ \E l \in Label :
       /\ Len(events[l]) = 2
       /\ events[l][1].t = 0 /\ BufLen(events[l][1].data) = 4800
       /\ events[l][2].t = 150 /\ BufLen(events[l][2].data) = 4800
       /\ HasFile(FileOf(l))
       /\ Len(TrackOf(FileOf(l))) = 3
       /\ IsSilence(TrackOf(FileOf(l))[2]) /\ BufLen(TrackOf(FileOf(l))[2]) = 2400

\* where each audio buffer of a track starts, in bytes from the start of the
\* audio data
RECURSIVE StartsIn(_, _)
StartsIn(track, pos) ==
  IF track = <<>> THEN <<>>
  ELSE (IF IsSilence(track[1]) THEN <<>> ELSE <<pos>>)
         \o StartsIn(Tail(track), pos + BufLen(track[1]))

\* C17: after finalizing, in each party's track the audio of every event
\* starts at the position of its offset, 48 bytes for each millisecond.
C17_AudioStartsAtItsOffset ==
  Finalized =>
    \A l \in Label :
      HasFile(FileOf(l)) =>
        LET at == StartsIn(TrackOf(FileOf(l)), 0)
        IN /\ Len(at) = Len(events[l])
           /\ \A k \in 1..Len(at) : at[k] = events[l][k].t * 48

\* the bytes of audio data in a track
RECURSIVE TotalBytes(_)
TotalBytes(track) ==
  IF track = <<>> THEN 0 ELSE BufLen(track[1]) + TotalBytes(Tail(track))

\* C18: after finalizing, no error was raised, a party without events has its
\* file with zero bytes of audio, the merged file exists, and it too has zero
\* bytes of audio when neither party has events.
C18_EmptyRecordingIsWritten ==
  Finalized =>
    /\ ~crashed /\ nErrors = 0
    /\ \A l \in Label :
         events[l] = <<>>
         => /\ HasFile(FileOf(l)) /\ TotalBytes(TrackOf(FileOf(l))) = 0
            /\ HasFile("conversation.wav")
    /\ (\A l \in Label : events[l] = <<>>)
       => TotalBytes(TrackOf("conversation.wav")) = 0

\* one party silent throughout, the other recorded
C18_Witness ==
  /\ Finalized
  /\ events["A"] = <<>> /\ events["B"] # <<>>
  /\ HasFile("sessionA_full.wav") /\ TrackOf("sessionA_full.wav") = <<>>
  /\ HasFile("conversation.wav") /\ TrackOf("conversation.wav") # <<>>

\* the audio buffers of a track, in order
AudioOf(track) == SelectSeq(track, LAMBDA b : ~IsSilence(b))

\* aud holds the audio of the events all, each once, in non-decreasing
\* offset order: the events of one offset fill the places after those of
\* all smaller offsets, in any order among themselves
EachOnceInOffsetOrder(aud, all) ==
  /\ Len(aud) = Len(all)
  /\ \A k \in 1..Len(all) :
       LET t == all[k].t
           lo == Cardinality({j \in 1..Len(all) : all[j].t < t}) + 1
           hi == Cardinality({j \in 1..Len(all) : all[j].t <= t})
       IN Cardinality({i \in lo..hi : aud[i] = all[k].data})
            = Cardinality({j \in 1..Len(all) : all[j].t = t /\ all[j].data = all[k].data})

\* C19: after finalizing, the merged track holds the audio of every event of
\* A and of B exactly once, in non-decreasing offset order; silence stands
\* only before audio, and the gap before an event that starts after the end
\* of everything earlier is filled exactly.
C19_MergedHasEveryEventOnceInOrder ==
  Finalized =>
    LET all == events["A"] \o events["B"]
        track == TrackOf("conversation.wav")
    IN /\ HasFile("conversation.wav")
       /\ EachOnceInOffsetOrder(AudioOf(track), all)
       /\ \A i \in 1..Len(track) :
            IsSilence(track[i])
            => BufLen(track[i]) > 0 /\ i < Len(track) /\ ~IsSilence(track[i + 1])
       /\ \A k \in 1..Len(all) :
            LET before == {j \in 1..Len(all) : all[j].t < all[k].t}
            IN (/\ before # {}
                /\ \A j \in before : all[j].t * 48 + BufLen(all[j].data) < all[k].t * 48
                /\ \A j \in 1..Len(all) : all[j].t = all[k].t => j = k)
               => \E i \in 2..Len(track) :
                    /\ track[i] = all[k].data
                    /\ IsSilence(track[i - 1])
                    /\ \E j \in before :
                         BufLen(track[i - 1])
                           = all[k].t * 48 - (all[j].t * 48 + BufLen(all[j].data))

\* B spoke first: A's audio at 150 ms follows B's 50 ms of audio at 0 ms
\* after 100 ms of silence
C19_Witness ==
  /\ Finalized
  /\ events["A"] = <<[t |-> 150, data |-> Chunk("A", 2400)]>>
  /\ events["B"] = <<[t |-> 0, data |-> Chunk("B", 2400)]>>
  /\ HasFile("conversation.wav")
  /\ TrackOf("conversation.wav") = <<Chunk("B", 2400), Silence(4800), Chunk("A", 2400)>>

\* C20: once a party's session has a remote identifier, no step that leaves
\* the party with that session changes the identifier.
C20_RemoteIdAssignedOnce ==
  [][\A l \in Label :
       (sessionIds[l] # <<>> /\ sessions[l] # 0 /\ sessions'[l] = sessions[l])
       => sessionIds'[l] = sessionIds[l]]_vars

\* the session.update messages sent on connection c
UpdatesOn(c) ==
  {j \in 1..Len(wire[conns[c].label]) :
     /\ wire[conns[c].label][j].conn = c
     /\ wire[conns[c].label][j].type = "session.update"}

\* C21: no connection is sent more than one session.update.
C21_ConfiguredOnce == \A c \in ConnIds : Cardinality(UpdatesOn(c)) <= 1

\* the connections of a party that are being opened or are open
Live(label) ==
  {c \in ConnIds : conns[c].label = label /\ conns[c].state \in {"CONNECTING", "OPEN"}}

\* C22: at every moment each party has at most one live connection.
C22_AtMostTwoLiveSessions == \A l \in Label : Cardinality(Live(l)) <= 1

\* C23: every step that handles an audio message records the payload for
\* its party and takes up its forward (chained, started, or failed with an
\* error event), and the handler ends without an exception.
C23_SubscribersNeverAbortTheCore ==
  [][(nEvents' # nEvents /\ last' = "audio") =>
       /\ ~crashed'
       /\ \E l \in Label :
            /\ Len(events'[l]) = Len(events[l]) + 1
            /\ \/ Len(pending'[Other(l)]) > Len(pending[Other(l)])
               \/ Running(streams', QueueId, Other(l)) # Running(streams, QueueId, Other(l))
               \/ nErrors' > nErrors]_vars

\* the audio message of type ty with the text b under member f
AudioMsg(ty, f, b) == [parse |-> TRUE, type |-> ty, field |-> f, b64 |-> b]

\* C24: in every state and on every connection that can deliver a message,
\* the audio branch does the same for a message with its text under data as
\* for the message with the text under delta; it emits no error event and,
\* when the party has a writer, records the decoded bytes and forwards them
\* to the other party's open session.
C24_DataAndDeltaHandledAlike ==
  ~crashed =>
    \A c \in ConnIds, ty \in AudioTypes, b \in {"cDQ4MA", "cDEwMDA="}, boom \in BOOLEAN :
      conns[c].state \in {"CONNECTING", "OPEN", "CLOSING"} =>
        LET cs == Opened(conns, c)
            viaData == AudioEffectCur(cs, c, AudioMsg(ty, "data", b), boom)
            viaDelta == AudioEffectCur(cs, c, AudioMsg(ty, "delta", b), boom)
            label == conns[c].label
            other == Other(label)
        IN /\ viaData = viaDelta
           /\ viaDelta.nErrors = nErrors
           /\ wavWriters[label].state # "undefined" =>
                /\ viaDelta.received[label] = Append(received[label], Decode(b))
                /\ IsOpen(cs, sessions[other]) =>
                     /\ Len(viaDelta.wire[other]) = Len(wire[other]) + 1
                     /\ viaDelta.wire[other][Len(wire[other]) + 1].audio = Decode(b)

\* audio of A has been recorded and has reached B, and no error was emitted
C24_Witness ==
  /\ ~crashed /\ nErrors = 0
  /\ received["A"] # <<>>
  /\ \E j \in 1..Len(wire["B"]) :
       /\ wire["B"][j].type = "input_audio_buffer.append"
       /\ wire["B"][j].from = "A"
       /\ wire["B"][j].audio = received["A"][1]

\* the established conversation of orchestrator.js, as SpecCur reaches it
EstablishedCur ==
  /\ wavWriters = [l \in WriterLabel |->
                     IF l \in Label THEN CreateWavWriter(<<"session", l, ".wav">>)
                     ELSE NoWriter]
  /\ ~crashed
  /\ conns = <<[label |-> "A", state |-> "OPEN", promise |-> "resolved"],
               [label |-> "B", state |-> "OPEN", promise |-> "resolved"]>>
  /\ sessions = [A |-> 1, B |-> 2]
  /\ sessionIds = [A |-> RemoteId(1), B |-> RemoteId(2)]
  /\ starts = <<[state |-> "resolved", response |-> StartResponse]>>
  /\ wire = [A |-> <<MsgP0(1, "session.update", "", "", NoAudio, "", <<>>),
                     MsgP0(1, "input_audio_buffer.append", "seed", "", SeedBuffer,
                           "", <<>>)>>,
             B |-> <<MsgP0(2, "session.update", "", "", NoAudio, "", <<>>)>>]
  /\ nErrors = 0
  /\ received = [l \in Label |-> <<>>]

\* C25: when the final text message of a party's turn follows the turn's one
\* text delta and carries the same text, it leaves both transcripts as they
\* are (the text is there once already).
C25_FinalTextNotAddedAgain ==
  [][\A l \in Label :
       (/\ nEvents' # nEvents
        /\ last = "response.text.delta " \o l
        /\ last' = "response.text.done " \o l)
       => transcripts' = transcripts]_vars

\* conversation.item.created with payload.item.role "user" (f =
\* "payload.item.role=user"), with a payload without item ("payload"), or
\* without payload ("")
ItemMsg(f) ==
  [parse |-> TRUE, type |-> "conversation.item.created", field |-> f, b64 |-> ""]

C27_SendOnClosedSessionFails ==
  [][\A c \in ConnIds, boom \in BOOLEAN :
       (MessageCur(c, ItemMsg("payload.item.role=user"), boom) /\ ~IsOpen(conns', c))
       => nErrors' = nErrors + 1 /\ wire' = wire]_vars

\* C28: a step in which a connection fails with a transport error emits an
\* error event and leaves the other party as it was: its session entry, its
\* connections and its writer.
C28_TransportErrorLeavesOtherPartyAlone ==
  [][(nEvents' # nEvents /\ last' = "error") =>
       \A c \in ConnIds :
         conns'[c] # conns[c] =>
           LET o == Other(conns[c].label)
           IN /\ nErrors' > nErrors
              /\ sessions'[o] = sessions[o]
              /\ \A d \in ConnIds : conns[d].label = o => conns'[d] = conns[d]
              /\ wavWriters'[o] = wavWriters[o]]_vars

\* C29: seed audio is sent to party A only, and a step sends the first frame
\* of a seed only when it completes a start() whose two connections have
\* both handled session.created.
C29_SeedAfterBothCreatedToAOnly ==
  [][\A l \in Label : \A j \in 1..Len(NewFrames(l)) :
       NewFrames(l)[j].from = "seed" =>
         /\ l = "A"
         /\ conns[NewFrames(l)[j].conn].label = "A"
         /\ NewFrames(l)[j].audio.lo = 0 =>
              \E k \in 1..Len(starts) :
                /\ starts[k].state = "pending" /\ starts'[k].state = "resolved"
                /\ conns'[2 * k - 1].promise = "resolved"
                /\ conns'[2 * k].promise = "resolved"]_vars

\* the seed of a second start() is on its way to A's new session
C29_Witness ==
  /\ Len(starts) = 2 /\ starts[2].state = "resolved"
  /\ \E j \in 1..Len(wire["A"]) :
       wire["A"][j].from = "seed" /\ wire["A"][j].conn = 3
  /\ \A j \in 1..Len(wire["B"]) : wire["B"][j].from # "seed"

\* the orders in which the events evs can have arrived
ArrivalOrders(evs) ==
  {q \in [1..Len(evs) -> {evs[i] : i \in 1..Len(evs)}] : SameEvents(q, evs)}

\* C30: a finalizing step writes, for events whose offsets are pairwise
\* distinct, the files that finalizing writes for every other order of
\* arrival of the same events: the three tracks are the same.
C30_ArrivalOrderDoesNotMatter ==
  [][(nEvents' # nEvents /\ last' = "stop"
      /\ DistinctOffsets(events["A"] \o events["B"])) =>
       \A qA \in ArrivalOrders(events["A"]), qB \in ArrivalOrders(events["B"]) :
         WriteConversationFiles(files, [A |-> SortByT(qA), B |-> SortByT(qB)])
           = files']_vars

\* A's louder chunk arrived first though its offset is the later one
C30_Witness ==
  /\ Finalized
  /\ received["A"] = <<Chunk("A", 4800), Chunk("A", 2400)>>
  /\ events["A"] = <<[t |-> 0, data |-> Chunk("A", 2400)],
                     [t |-> 150, data |-> Chunk("A", 4800)]>>
  /\ HasFile("sessionA_full.wav")
  /\ TrackOf("sessionA_full.wav")
       = <<Chunk("A", 2400), Silence(4800), Chunk("A", 4800)>>


\* ---------------------------------------------------- _streamTo by itself
\* _streamTo(label, buffer) on buffers of the lengths around the multiples of
\* the frame size.  The conversation runs; two payloads have just arrived
\* from the other party: the first is being streamed to party y (first frame
\* sent, its timer running), the second waits on forwardQueues[y].  A buffer
\* is known by its place in the arrival order and its length.
StreamLens ==
  {n \in {k * frameSize + d : k \in 0..SeedFrames, d \in {-1, 0, 1}} : n >= 0}
StreamBuffer(n, len) == [src |-> <<"pcm", n, len>>, lo |-> 0, hi |-> len]

InitStream ==
  \E y \in Label, len1 \in StreamLens \ {0}, len2 \in StreamLens :
    LET x == Other(y)
        b1 == StreamBuffer(1, len1)
        b2 == StreamBuffer(2, len2)
        c == IF y = "A" THEN 1 ELSE 2
        t == SeedFrames * frameDelayMs
    IN /\ InitP0
       /\ conns = <<[label |-> "A", state |-> "OPEN", promise |-> "resolved"],
                    [label |-> "B", state |-> "OPEN", promise |-> "resolved"]>>
       /\ sessions = [A |-> 1, B |-> 2]
       /\ sessionIds = [A |-> RemoteId(1), B |-> RemoteId(2)]
       /\ events = [l \in Label |->
                      IF l = x THEN <<[t |-> t, data |-> b1], [t |-> t, data |-> b2]>>
                      ELSE <<>>]
       /\ pending = [l \in Label |->
                       IF l = y THEN <<[buf |-> b2, from |-> x, addressed |-> c]>>
                       ELSE <<>>]
       /\ streams = {[id |-> QueueId, dest |-> y, ws |-> c, buf |-> b1, i |-> 0,
                      wait |-> TRUE, from |-> x]}
       /\ startTime = 0
       /\ now = t
       /\ starts = <<[state |-> "resolved", response |-> StartResponse]>>
       /\ wire = [l \in Label |->
                    <<SessionUpdate(IF l = "A" THEN 1 ELSE 2, l)>>
                    \o (IF l = "A"
                        THEN [j \in 1..SeedFrames |->
                                AppendFrame(1, "seed",
                                  Slice(SeedBuffer, (j - 1) * frameSize, j * frameSize))]
                        ELSE <<>>)
                    \o (IF l = y THEN <<AppendFrame(c, x, Slice(b1, 0, frameSize))>>
                        ELSE <<>>)]
       /\ nErrors = 0
       /\ received = [l \in Label |-> IF l = x THEN <<b1, b2>> ELSE <<>>]
       /\ missed = [l \in Label |-> FALSE]
       /\ nEvents = 0
       /\ last = "audio"

NextStream ==
  \/ Tick
  \/ \E c \in ConnIds : CloseEvt(c)
  \/ \E s \in streams : TimerFire(s)

SpecStream == InitStream /\ [][NextStream]_vars

\* ------------------------------------------------------------ part_002
\* src/unnamed/part_002 is orchestrator.js with another audio branch and no
\* conversation.item.created branch: start, stop, the session.created
\* branch and the 'close' and 'error' listeners are the same code.  A payload
\* is written to the party's writer and, if the other party's session is
\* OPEN, chained on forwardQueues[other]; the chained callback sends on the
\* socket it captured and returns a promise that a timer resolves.
byteRate == 48000

\* setTimeout(res, delayMs) with delayMs = (chunk.length / 48000) * 1000: the
\* timer takes the delay truncated to whole milliseconds, and 1 ms for a
\* delay below 1.
TimeoutMs(len) ==
  LET whole == (len * 1000) \div byteRate IN IF whole >= 1 THEN whole ELSE 1

P2Effects == [wire |-> wire, pending |-> pending, timers |-> timers]

\* the promise chain of forwardQueues[dest]: the callback chained first runs
\* when no timer of an earlier callback is outstanding
DrainP2(cs, r, dest) ==
  IF r.pending[dest] = <<>> \/ \E t \in r.timers : t.dest = dest THEN r
  ELSE LET item == Head(r.pending[dest])
       IN [wire |-> SendP0(cs, r.wire, item.target,
                           MsgP0(item.target, "input_audio_buffer.append", item.from,
                                 "", item.chunk, "", <<>>)),
           pending |-> [r.pending EXCEPT ![dest] = Tail(@)],
           timers |-> r.timers \cup {[dest |-> dest, start |-> now,
                                      due |-> now + TimeoutMs(BufLen(item.chunk)),
                                      len |-> BufLen(item.chunk)]}]

\* this.forwardQueues[other] = this.forwardQueues[other].then(() => { ... })
EnqueueP2(cs, r, dest, item) ==
  DrainP2(cs, [r EXCEPT !.pending[dest] = Append(@, item)], dest)

\* the audio branch of part_002; the throws are those of orchestrator.js
OnAudioP2(cs, c, m, boom) ==
  LET label == cs[c].label
      other == Other(label)
      b64 == PayloadOf(m)
      chunk == Decode(b64)
      w == wavWriters[label]
      target == sessions[other]
      r == IF IsOpen(cs, target)
           THEN EnqueueP2(cs, P2Effects, other,
                          [target |-> target, chunk |-> chunk, from |-> label])
           ELSE P2Effects
  IN /\ conns' = cs
     /\ UNCHANGED <<sessions, sessionIds, starts, nErrors>>
     /\ IF b64 = "undefined" \/ w.state = "undefined"
        THEN /\ crashed' = TRUE
             /\ UNCHANGED <<received, wavWriters, wire, pending, timers>>
        ELSE /\ crashed' = (w.state = "ended" /\ boom)
             /\ received' = [received EXCEPT ![label] = Append(@, chunk)]
             /\ wavWriters' = [wavWriters EXCEPT ![label] = WriteP0(w, BufLen(chunk))]
             /\ wire' = r.wire
             /\ pending' = r.pending
             /\ timers' = r.timers

\* the messages drawn for part_002
RawMessagesP2 ==
  {[parse |-> FALSE, type |-> "", field |-> "", b64 |-> ""]}
  \cup {[parse |-> TRUE, type |-> "session.created", field |-> "session.id", b64 |-> ""]}
  \cup {[parse |-> TRUE, type |-> "response.audio.delta", field |-> "delta", b64 |-> b] :
          b \in B64Texts}

\* ws.on("message") of part_002
MessageP2(c, m, boom) ==
  LET cs == Opened(conns, c)
  IN /\ ~crashed
     /\ conns[c].state \in {"CONNECTING", "OPEN", "CLOSING"}
     /\ Event
     /\ last' = (IF ~m.parse THEN "unparseable " \o conns[c].label
                 ELSE IF m.type \in AudioTypes THEN "audio" ELSE m.type)
     /\ IF ~m.parse
        THEN /\ conns' = cs
             /\ nErrors' = nErrors + 1
             /\ UNCHANGED <<sessions, sessionIds, starts, wire, wavWriters, crashed,
                            received, pending, timers>>
        ELSE IF m.type = "session.created"
        THEN /\ OnSessionCreatedCur(cs, c, m)
             /\ UNCHANGED <<received, pending, timers>>
        ELSE IF m.type \in AudioTypes THEN OnAudioP2(cs, c, m, boom)
        ELSE /\ conns' = cs
             /\ UNCHANGED <<sessions, sessionIds, starts, wire, nErrors, wavWriters,
                            crashed, received, pending, timers>>
     /\ UNCHANGED <<events, streams, startTime, missed, now, topicNarrative,
                    transcripts, outputDir, files>>

\* the timer of a chained callback expires: its promise is resolved and the
\* callback chained behind it runs
TimerFireP2(t) ==
  LET r == DrainP2(conns, [P2Effects EXCEPT !.timers = @ \ {t}], t.dest)
  IN /\ ~crashed
     /\ t \in timers
     /\ t.due <= now
     /\ wire' = r.wire
     /\ pending' = r.pending
     /\ timers' = r.timers
     /\ UNCHANGED <<conns, sessions, sessionIds, events, streams, startTime, now,
                    starts, nErrors, received, missed, nEvents, last, topicNarrative,
                    transcripts, outputDir, wavWriters, files, crashed>>

\* time passes until the next timer is due
TickP2 ==
  LET due == {t.due : t \in {u \in timers : u.due > now}}
  IN /\ ~crashed
     /\ due # {}
     /\ Event
     /\ now' = CHOOSE d \in due : \A e \in due : d <= e
     /\ last' = "tick"
     /\ UNCHANGED <<conns, sessions, sessionIds, events, pending, streams, startTime,
                    starts, wire, nErrors, received, missed, varsP0>>

\* the messages drawn while it runs: audio payloads of 480 and 1000 bytes
RunningMessagesP2 ==
  {m \in RawMessagesP2 : m.type \in AudioTypes /\ m.b64 \in {"cDQ4MA", "cDEwMDA="}}

NextP2 ==
  \/ StopCur
  \/ TickP2
  \/ \E c \in ConnIds : ErrorEvtCur(c)
  \/ \E c \in ConnIds : CloseEvtCur(c)
  \/ \E c \in ConnIds, m \in RunningMessagesP2, boom \in BOOLEAN :
        MessageP2(c, m, boom)
  \/ \E t \in timers : TimerFireP2(t)

\* part_002 with its conversation established (the state is that of
\* orchestrator.js: the code up to there is the same)
SpecP2 == InitRunningCur /\ [][NextP2]_vars

\* C31: in every reachable state, a second conversation on the same
\* orchestrator included, the offsets of each party's recorded events do not
\* decrease along the sequence.
C31_OffsetsNonDecreasing == \A l \in Label : NonDecreasing(events[l])

\* C32: a forward of L bytes holds the next queued item for the same
\* destination back for at least L/48 ms (L bytes at 48 bytes per ms): when
\* the timer set after a forward expires, at least that much time has passed.
C32_PacingAtLeastRealTime ==
  [][\A t \in timers :
       t \notin timers' => (now - t.start) * bytesPerMs >= t.len]_vars

\* The frames of the buffer src that were sent to party y, in send order.
CallFrames(y) == SelectSeq(wire[y], LAMBDA e : e.from = Other(y))
FramesOf(y, src) ==
  LET fs == SelectSeq(CallFrames(y), LAMBDA e : e.audio.src = src)
  IN [j \in 1..Len(fs) |-> fs[j].audio]
StreamedTo(y) == {CallFrames(y)[j].audio.src : j \in 1..Len(CallFrames(y))}
CeilDiv(a, b) == (a + b - 1) \div b
\* the j-th piece of frameSize bytes of a buffer
Piece(src, j) ==
  [src |-> src, lo |-> (j - 1) * frameSize, hi |-> Min(j * frameSize, src[3])]
StreamingOf(src) == {s \in streams : s.buf.src = src}
SessionOpen(y) == conns[sessions[y]].state = "OPEN"

\* C33: the frames sent for a buffer of L bytes are its consecutive pieces of
\* 960 bytes from offset 0 on, the last one possibly shorter and none empty;
\* to a session that is open, a call that has got to offset i has sent
\* i/960 + 1 frames, and a call that is over has sent exactly ceil(L/960),
\* which cover the buffer; an empty buffer sends no frame.
C33_FramesPartitionBuffer ==
  \A y \in Label :
    /\ \A src \in StreamedTo(y) :
         LET fs == FramesOf(y, src)
         IN /\ 0 < src[3]
            /\ Len(fs) <= CeilDiv(src[3], frameSize)
            /\ \A j \in 1..Len(fs) : fs[j] = Piece(src, j) /\ 0 < BufLen(fs[j])
    /\ SessionOpen(y) =>
         \A j \in 1..Len(received[Other(y)]) :
           LET buf == received[Other(y)][j]
               fs == FramesOf(y, buf.src)
               queued == \E k \in 1..Len(pending[y]) : pending[y][k].buf = buf
           IN IF queued THEN fs = <<>>
              ELSE IF StreamingOf(buf.src) # {}
              THEN \A s \in StreamingOf(buf.src) : Len(fs) = (s.i \div frameSize) + 1
              ELSE Len(fs) = CeilDiv(BufLen(buf), frameSize)

\* C33 witness: both buffers have been streamed whole to an open session,
\* the second one, a byte longer than a frame, in two frames of 960 bytes
\* and 1 byte.
C33_Witness ==
  \E y \in Label :
    LET buf == received[Other(y)][2]
    IN /\ Len(received[Other(y)]) = 2
       /\ SessionOpen(y)
       /\ streams = {} /\ pending[y] = <<>>
       /\ BufLen(buf) = frameSize + 1
       /\ Len(FramesOf(y, buf.src)) = 2
       /\ BufLen(FramesOf(y, buf.src)[2]) = 1

\* C34: no audio payload is written to a writer that has been ended: in a
\* step that handles a payload of party x, x's writer is not ended.
C34_NoWriteAfterEnd ==
  [][\A x \in Label :
       received'[x] # received[x] => wavWriters[x].state # "ended"]_vars

\* C35: a queued forward that fails (its destination is no longer open when
\* its turn comes) is reported and the chain goes on: after every step,
\* items wait for a destination only behind a forward that is running, and
\* a step that takes k waiting items off the queue of a destination without
\* an open session reports k errors, one for each.
C35_FailedForwardAffectsOnlyItself ==
  [][\A y \in Label :
       LET k == Len(pending[y]) - Len(pending'[y])
       IN /\ pending'[y] # <<>> => Running(streams', QueueId, y) # {}
          /\ (k > 0 /\ conns' = conns /\ ~IsOpen(conns, sessions[y]))
               => /\ nErrors' = nErrors + k
                  /\ pending'[y] = <<>>]_vars

\* C35 witness: three payloads were chained for y while its session was
\* open; the session closed while the first was paced; the two behind it
\* were each attempted and reported, and nothing is left waiting.
C35_Witness ==
  \E y \in Label :
    /\ ~missed[y]
    /\ conns[sessions[y]].state = "CLOSED"
    /\ Len(received[Other(y)]) = 3
    /\ Len(SelectSeq(wire[y], LAMBDA e : e.from = Other(y))) = 1
    /\ pending[y] = <<>>
    /\ Running(streams, QueueId, y) = {}
    /\ nErrors >= 2

\* C36: a start() that follows a stop() begins a conversation of its own:
\* after that step the event sequences, from which the next stop() writes
\* the recordings, hold no event of the conversation before.
C36_NewConversationStartsEmpty ==
  [][(nEvents' # nEvents /\ last = "stop" /\ last' = "start") =>
       \A l \in Label : events'[l] = <<>>]_vars

\* C37: while the process runs, the three tracks have received the same
\* number of bytes: every payload went to its party's track and the combined
\* track, and as much silence to the other party's track.
C37_TracksSameLength ==
  ~crashed =>
    /\ wavWriters["A"].bytes = wavWriters["B"].bytes
    /\ wavWriters["A"].bytes = wavWriters["combined"].bytes

\* C38: on every connection the first message sent is session.update: every
\* other message on the wire comes after a session.update sent on the same
\* connection.
C38_SessionUpdateFirst ==
  \A l \in Label : \A i \in 1..Len(wire[l]) :
    wire[l][i].type # "session.update" =>
      \E j \in 1..(i - 1) :
        wire[l][j].conn = wire[l][i].conn /\ wire[l][j].type = "session.update"

====
